---- MODULE Spec2Model ----
(***************************************************************************)
(* Model of the retrieval core of cloud-ai-service (src/app/inference.py): *)
(* FAISSIndex, RAGPipeline, generate_answer and the get_pipeline           *)
(* singleton.                                                              *)
(*                                                                         *)
(* A text is a sequence of one-character strings.  A vector is a sequence  *)
(* of integers; floats are modelled in fixed point with three decimals, so *)
(* a unit vector has components in -1000..1000 and a score of 1.0 is 1000. *)
(***************************************************************************)
EXTENDS Integers, Sequences, FiniteSets, TLC

VARIABLES
    documents,     \* FAISSIndex.documents                  (inference.py:63)
    xb,            \* vectors held by the faiss index; ntotal = Len(xb) (:65)
    is_indexed,    \* RAGPipeline._is_indexed               (inference.py:109)
    ret,           \* outcome of the last call: what it returned or raised
    indexCalled,   \* history: index_documents has been entered at least once
    ga,            \* inputs and output of a generate_answer call
    instance,      \* _pipeline_instance: 0 is None, else an object id (:212)
    objs,          \* the RAGPipeline objects constructed so far, by id
    knowledge,     \* the file data/knowledge.txt that get_pipeline loads
    loads,         \* history: number of index_from_file calls of get_pipeline
    pc,            \* per caller: position inside get_pipeline
    got            \* per caller: the object get_pipeline returned (0 = none)

vars == <<documents, xb, is_indexed, ret, indexCalled, ga,
          instance, objs, knowledge, loads, pc, got>>

pipelineVars == <<documents, xb, is_indexed, ret, indexCalled>>
answerVars == <<ga>>
singletonVars == <<instance, objs, knowledge, loads, pc, got>>

----------------------------------------------------------------------------
\* Bounds of the model.

EmbDim == 2        \* the encoder's output dimension
MaxDocs == 3       \* largest number of stored documents explored
MaxBatch == 2      \* largest batch handed to one insertion
MaxK == 3          \* largest k of a search
MaxLines == 2      \* largest number of lines of the knowledge file
ExtraLen == 1      \* how far the long document exceeds the related-info cut
MaxRanked == 3     \* longest ranked result handed to generate_answer
NumCallers == 2    \* concurrent callers of get_pipeline

\* Program constants (scores in thousandths).
HighThreshold == 700
ModerateThreshold == 500
RelatedLimit == 200

----------------------------------------------------------------------------
\* Helpers.

Min(a, b) == IF a <= b THEN a ELSE b

RECURSIVE SumTo(_, _)
SumTo(f, n) == IF n = 0 THEN 0 ELSE f[n] + SumTo(f, n - 1)

RECURSIVE SqrtBetween(_, _, _)
\* the integer square root of n, known to lie in lo..hi
SqrtBetween(n, lo, hi) ==
    IF lo >= hi THEN lo
    ELSE LET mid == (lo + hi + 1) \div 2
         IN  IF mid * mid <= n THEN SqrtBetween(n, mid, hi)
             ELSE SqrtBetween(n, lo, mid - 1)

RECURSIVE PowerAbove(_, _)
\* the least p * 2^i whose square exceeds n
PowerAbove(n, p) == IF p * p > n THEN p ELSE PowerAbove(n, 2 * p)

ISqrt(n) == SqrtBetween(n, 0, PowerAbove(n, 1))

SeqsUpTo(S, n) == UNION {[1..m -> S] : m \in 0..n}

Pad(v) == [i \in 1..EmbDim |-> IF i <= Len(v) THEN v[i] ELSE 0]

Text(c, n) == [i \in 1..n |-> c]

----------------------------------------------------------------------------
\* Texts and the encoder.

DocA == <<"a">>
DocB == <<"b", "b">>
DocPool == {DocA, DocB}
QueryPool == {<<"a", "?">>, <<"d", "?">>}

\* EmbeddingModel.encode_single: an opaque deterministic map from a text to
\* a vector of the encoder's dimension.  Texts starting with "a" and "c"
\* point in the same direction.
encode_single(text) ==
    IF Len(text) = 0 THEN Pad(<<>>)
    ELSE CASE text[1] = "a" -> Pad(<<3, 4>>)
           [] text[1] = "b" -> Pad(<<4, 3>>)
           [] text[1] = "c" -> Pad(<<6, 8>>)
           [] text[1] = "d" -> Pad(<<0, 5>>)
           [] OTHER -> Pad(<<>>)

\* EmbeddingModel.encode: one vector per text, in order.
encode(texts) == [i \in 1..Len(texts) |-> encode_single(texts[i])]

\* faiss.normalize_L2: scale to unit L2 norm; a zero vector is left as is.
normalize_L2(v) ==
    LET n2 == SumTo([i \in 1..Len(v) |-> v[i] * v[i]], Len(v))
        norm == ISqrt(n2 * 1000000)
    IN  IF norm = 0 THEN v
        ELSE [i \in 1..Len(v) |-> (v[i] * 1000000) \div norm]

\* the inner product of two unit vectors, in thousandths
InnerProduct(u, v) ==
    SumTo([i \in 1..Len(u) |-> u[i] * v[i]], Len(u)) \div 1000

----------------------------------------------------------------------------
\* Outcomes of calls.  error "none" is a normal return; the others name the
\* exception raised: "Mismatch" is ValueError("Documents and embeddings count
\* mismatch"), "EmptyCorpus" is ValueError("Knowledge file is empty"),
\* "FileNotFound" is FileNotFoundError, "IndexError" is a list index out of
\* range and "LibraryError" is an error raised inside numpy or faiss.

NoRet(op) ==
    [op |-> op, error |-> "none", docs |-> <<>>, scores |-> <<>>, idx |-> <<>>,
     answer |-> <<>>, encoded |-> FALSE, nd |-> 0, nv |-> 0, k |-> 0, n |-> 0]

ntotal == Len(xb)

----------------------------------------------------------------------------
\* FAISSIndex.

\* add_documents with the count check made after index.add
add_documents_late_check(docs, embeddings) ==
    LET unit == [i \in 1..Len(embeddings) |-> normalize_L2(embeddings[i])]
    IN  IF \E i \in 1..Len(unit) : Len(unit[i]) # EmbDim
        THEN [error |-> "LibraryError", documents |-> documents, xb |-> xb]
        ELSE IF Len(docs) # Len(embeddings)
        THEN [error |-> "Mismatch", documents |-> documents, xb |-> xb \o unit]
        ELSE [error |-> "none", documents |-> documents \o docs, xb |-> xb \o unit]

\* add_documents without the count check
add_documents_unchecked(docs, embeddings) ==
    LET unit == [i \in 1..Len(embeddings) |-> normalize_L2(embeddings[i])]
    IN  IF \E i \in 1..Len(unit) : Len(unit[i]) # EmbDim
        THEN [error |-> "LibraryError", documents |-> documents, xb |-> xb]
        ELSE [error |-> "none", documents |-> documents \o docs, xb |-> xb \o unit]

\* FAISSIndex.add_documents on the current index: the error raised, and the
\* documents and vectors stored afterwards.
add_documents(docs, embeddings) ==
    IF Len(docs) # Len(embeddings)
    THEN [error |-> "Mismatch", documents |-> documents, xb |-> xb]
    ELSE LET unit == [i \in 1..Len(embeddings) |-> normalize_L2(embeddings[i])]
         IN  IF \E i \in 1..Len(unit) : Len(unit[i]) # EmbDim
             THEN \* index.add rejects rows of another dimension
                  [error |-> "LibraryError", documents |-> documents, xb |-> xb]
             ELSE [error |-> "none", documents |-> documents \o docs,
                   xb |-> xb \o unit]

\* the lists of m distinct positions of sc, highest value first, that leave
\* out no position with a value above one listed
BestFirst(sc, m) ==
    {s \in [1..m -> DOMAIN sc] :
        /\ \A i, j \in 1..m : i < j => (s[i] # s[j] /\ sc[s[i]] >= sc[s[j]])
        /\ \A p \in DOMAIN sc :
              (\A i \in 1..m : s[i] # p) => \A i \in 1..m : sc[p] <= sc[s[i]]}

\* faiss IndexFlatIP.search for one query: the position lists it may return.
\* The k best inner products, best first; faiss documents no order among
\* equal scores, so every order of equal scores is a possible result.  When
\* fewer than k vectors are stored the result is padded with position 0
\* (faiss's label -1).
IndexFlatIP_search(q, k) ==
    LET n == Len(xb)
        m == Min(k, n)
    IN  {[i \in 1..k |-> IF i <= m THEN s[i] ELSE 0] :
            s \in BestFirst([i \in 1..n |-> InnerProduct(q, xb[i])], m)}

\* the score faiss reports for a position (the padding reports the lowest)
ScoreAt(q, p) == IF p = 0 THEN -1000000 ELSE InnerProduct(q, xb[p])

\* FAISSIndex.search past the empty-index return, asking faiss for kk entries
SearchStored(query_embedding, k, kk) ==
    IF Len(query_embedding) # EmbDim
    THEN {[NoRet("search") EXCEPT !.error = "LibraryError", !.k = k, !.n = ntotal]}
    ELSE LET q == normalize_L2(query_embedding)
         IN  IF kk = 0
             THEN \* faiss either rejects k = 0 or returns no column
                  {[NoRet("search") EXCEPT !.error = "LibraryError", !.k = k, !.n = ntotal],
                   [NoRet("search") EXCEPT !.k = k, !.n = ntotal]}
             ELSE {IF \E i \in 1..kk : s[i] > Len(documents)
                      \/ (s[i] = 0 /\ Len(documents) = 0)
                   THEN [NoRet("search") EXCEPT !.error = "IndexError",
                                                !.k = k, !.n = ntotal]
                   ELSE [NoRet("search") EXCEPT
                            !.docs = [i \in 1..kk |->
                                        IF s[i] = 0 THEN documents[Len(documents)]
                                        ELSE documents[s[i]]],
                            !.scores = [i \in 1..kk |-> ScoreAt(q, s[i])],
                            !.idx = s, !.k = k, !.n = ntotal]
                   : s \in IndexFlatIP_search(q, kk)}

\* search without k = min(k, ntotal)
search_unclamped(query_embedding, k) ==
    IF ntotal = 0 THEN {[NoRet("search") EXCEPT !.k = k, !.n = 0]}
    ELSE SearchStored(query_embedding, k, k)

\* FAISSIndex.search on the current index: the set of possible outcomes.
search(query_embedding, k) ==
    IF ntotal = 0 THEN {[NoRet("search") EXCEPT !.k = k, !.n = 0]}
    ELSE SearchStored(query_embedding, k, Min(k, ntotal))

VectorPool == {encode_single(d) : d \in DocPool} \cup {[i \in 1..(EmbDim + 1) |-> 1]}

\* the arrays handed to add_documents with a batch: its encoding, the
\* encoding with a row too many or too few, and rows of another dimension
EmbeddingsFor(docs) ==
    LET e == encode(docs)
    IN  {e, e \o <<encode_single(DocA)>>, [i \in 1..Len(e) |-> Append(e[i], 1)]}
            \cup (IF Len(e) > 0 THEN {SubSeq(e, 1, Len(e) - 1)} ELSE {})

KPool == 0..MaxK

\* a direct call of FAISSIndex.add_documents
AddDocuments ==
    /\ \E docs \in SeqsUpTo(DocPool, MaxBatch) : \E emb \in EmbeddingsFor(docs) :
          /\ Len(xb) + Len(emb) <= MaxDocs
          /\ Len(documents) + Len(docs) <= MaxDocs
          /\ LET o == add_documents(docs, emb)
             IN  /\ documents' = o.documents
                 /\ xb' = o.xb
                 /\ ret' = [NoRet("add_documents") EXCEPT
                               !.error = o.error, !.nd = Len(docs), !.nv = Len(emb),
                               !.n = ntotal]
    /\ UNCHANGED <<is_indexed, indexCalled, answerVars, singletonVars>>

\* a direct call of FAISSIndex.search
Search ==
    /\ \E q \in VectorPool, k \in KPool : \E o \in search(q, k) : ret' = o
    /\ UNCHANGED <<documents, xb, is_indexed, indexCalled, answerVars,
                   singletonVars>>

----------------------------------------------------------------------------
\* RAGPipeline.

\* the label with the thresholds included in the upper class
Confidence_inclusive(top_score) ==
    IF top_score >= HighThreshold THEN "high confidence"
    ELSE IF top_score >= ModerateThreshold THEN "moderate confidence"
    ELSE "low confidence"

\* RAGPipeline.generate_answer: the confidence label of a top score
Confidence(top_score) ==
    IF top_score > HighThreshold THEN "high confidence"
    ELSE IF top_score > ModerateThreshold THEN "moderate confidence"
    ELSE "low confidence"

\* Python's s[:n]
Slice(s, n) == SubSeq(s, 1, Min(n, Len(s)))

\* generate_answer with the second document not cut
generate_answer_uncut(query, retrieved_docs, similarity_scores) ==
    IF Len(retrieved_docs) = 0 THEN <<"No relevant information found.">>
    ELSE LET confidence == Confidence(similarity_scores[1])
             head == <<"Based on retrieved data (", confidence, "):\n">>
                        \o retrieved_docs[1]
         IN  IF Len(retrieved_docs) > 1
             THEN head \o <<"\n\nRelated info:\n">> \o retrieved_docs[2]
             ELSE head

\* RAGPipeline.generate_answer: the answer, as the sequence of its pieces
\* (the fixed pieces are one element each, a document is its characters).
generate_answer(query, retrieved_docs, similarity_scores) ==
    IF Len(retrieved_docs) = 0 THEN <<"No relevant information found.">>
    ELSE LET confidence == Confidence(similarity_scores[1])
             head == <<"Based on retrieved data (", confidence, "):\n">>
                        \o retrieved_docs[1]
         IN  IF Len(retrieved_docs) > 1
             THEN head \o <<"\n\nRelated info:\n">>
                       \o Slice(retrieved_docs[2], RelatedLimit)
             ELSE head

\* index_documents without self._is_indexed = True
index_documents_no_flag(docs) ==
    LET o == add_documents(docs, encode(docs))
        failed(e) == [error |-> e, documents |-> documents, xb |-> xb,
                      is_indexed |-> is_indexed]
        done == [error |-> "none", documents |-> o.documents, xb |-> o.xb,
                 is_indexed |-> is_indexed]
    IN  IF Len(docs) = 0 THEN {failed("LibraryError"), done}
        ELSE IF o.error # "none" THEN {failed(o.error)}
        ELSE {done}

\* RAGPipeline.index_documents on the current pipeline: the set of possible
\* outcomes.  The code has no check for an empty batch: it encodes it and
\* hands it to add_documents, whose count check passes (0 = 0).  What the
\* encoder returns for no text is outside the code: an array without a
\* second axis makes faiss.normalize_L2 fail, an array of zero rows is
\* accepted and the call completes.
index_documents(docs) ==
    LET o == add_documents(docs, encode(docs))
        failed(e) == [error |-> e, documents |-> documents, xb |-> xb,
                      is_indexed |-> is_indexed]
        done == [error |-> "none", documents |-> o.documents, xb |-> o.xb,
                 is_indexed |-> TRUE]
    IN  IF Len(docs) = 0 THEN {failed("LibraryError"), done}
        ELSE IF o.error # "none" THEN {failed(o.error)}
        ELSE {done}

IsSpace(c) == c = " "

RECURSIVE LStrip(_)
LStrip(s) == IF Len(s) > 0 /\ IsSpace(Head(s)) THEN LStrip(Tail(s)) ELSE s

RECURSIVE RStrip(_)
RStrip(s) ==
    IF Len(s) > 0 /\ IsSpace(s[Len(s)]) THEN RStrip(SubSeq(s, 1, Len(s) - 1))
    ELSE s

\* str.strip
Strip(s) == RStrip(LStrip(s))

NonEmpty(s) == Len(s) > 0

\* RAGPipeline.index_from_file: the documents of a text, one per non-empty
\* stripped line
FileDocuments(lines) ==
    SelectSeq([i \in 1..Len(lines) |-> Strip(lines[i])], NonEmpty)

LinePool == {DocA, <<" ">>, <<" ", "b", "b", " ">>}

FilePool ==
    {[exists |-> FALSE, lines |-> <<>>]}
        \cup {[exists |-> TRUE, lines |-> l] : l \in SeqsUpTo(LinePool, MaxLines)}

\* RAGPipeline.is_ready
is_ready == is_indexed /\ ntotal > 0

\* retrieve without the _is_indexed test
retrieve_unguarded(query, k) ==
    {[o EXCEPT !.op = "retrieve", !.encoded = TRUE] :
        o \in search(encode_single(query), k)}

\* RAGPipeline.retrieve on the current pipeline: the set of possible outcomes
retrieve(query, k) ==
    IF ~is_indexed THEN {[NoRet("retrieve") EXCEPT !.k = k, !.n = ntotal]}
    ELSE {[o EXCEPT !.op = "retrieve", !.encoded = TRUE] :
             o \in search(encode_single(query), k)}

\* RAGPipeline.query on the current pipeline: the set of possible outcomes
query(text, k) ==
    {IF r.error # "none" THEN [r EXCEPT !.op = "query"]
     ELSE [r EXCEPT !.op = "query",
                    !.answer = generate_answer(text, r.docs, r.scores)]
     : r \in retrieve(text, k)}

IndexDocuments ==
    /\ \E docs \in SeqsUpTo(DocPool, MaxBatch) :
          /\ Len(documents) + Len(docs) <= MaxDocs
          /\ Len(xb) + Len(docs) <= MaxDocs
          /\ \E o \in index_documents(docs) :
                /\ documents' = o.documents
                /\ xb' = o.xb
                /\ is_indexed' = o.is_indexed
                /\ ret' = [NoRet("index_documents") EXCEPT
                              !.error = o.error, !.nd = Len(docs),
                              !.encoded = TRUE, !.n = ntotal]
    /\ indexCalled' = TRUE
    /\ UNCHANGED <<answerVars, singletonVars>>

IndexFromFile ==
    /\ \E file \in FilePool :
          LET docs == FileDocuments(file.lines)
          IN  /\ Len(documents) + Len(docs) <= MaxDocs
              /\ Len(xb) + Len(docs) <= MaxDocs
              /\ IF ~file.exists \/ Len(docs) = 0
                 THEN /\ ret' = [NoRet("index_from_file") EXCEPT
                                   !.error = IF ~file.exists THEN "FileNotFound"
                                             ELSE "EmptyCorpus",
                                   !.n = ntotal]
                      /\ UNCHANGED <<documents, xb, is_indexed, indexCalled>>
                 ELSE /\ \E o \in index_documents(docs) :
                            /\ documents' = o.documents
                            /\ xb' = o.xb
                            /\ is_indexed' = o.is_indexed
                            /\ ret' = [NoRet("index_from_file") EXCEPT
                                          !.error = o.error, !.nd = Len(docs),
                                          !.encoded = TRUE, !.n = ntotal]
                      /\ indexCalled' = TRUE
    /\ UNCHANGED <<answerVars, singletonVars>>

Retrieve ==
    /\ \E text \in QueryPool, k \in KPool : \E o \in retrieve(text, k) : ret' = o
    /\ UNCHANGED <<documents, xb, is_indexed, indexCalled, answerVars,
                   singletonVars>>

Query ==
    /\ \E text \in QueryPool, k \in KPool : \E o \in query(text, k) : ret' = o
    /\ UNCHANGED <<documents, xb, is_indexed, indexCalled, answerVars,
                   singletonVars>>

\* a freshly constructed RAGPipeline (RAGPipeline.__init__); the parts of the
\* state that belong to the other specifications stay idle
Init ==
    /\ documents = <<>>
    /\ xb = <<>>
    /\ is_indexed = FALSE
    /\ ret = NoRet("init")
    /\ indexCalled = FALSE
    /\ ga = [phase |-> "idle"]
    /\ instance = 0
    /\ objs = <<>>
    /\ knowledge = [exists |-> FALSE, lines |-> <<>>]
    /\ loads = 0
    /\ pc = <<>>
    /\ got = <<>>

Next == AddDocuments \/ Search \/ IndexDocuments \/ IndexFromFile \/ Retrieve \/ Query

Spec == Init /\ [][Next]_vars

----------------------------------------------------------------------------
\* generate_answer as a pure function of a ranked result.

LongDoc == Text("c", RelatedLimit + ExtraLen)
CutDoc == Text("d", RelatedLimit)
AnswerDocs == {DocA, DocB, CutDoc, LongDoc}

ScorePool == {300, ModerateThreshold, ModerateThreshold + 1,
              HighThreshold, HighThreshold + 1}

\* scores of a ranked result: best first
IsRanked(sc) == \A i, j \in 1..Len(sc) : i < j => sc[i] >= sc[j]

\* the inputs are ranked results: parallel documents and scores
InitAnswer ==
    /\ \E n \in 0..MaxRanked :
          \E d \in [1..n -> AnswerDocs], sc \in [1..n -> ScorePool], text \in QueryPool :
              /\ IsRanked(sc)
              /\ ga = [phase |-> "call", query |-> text, docs |-> d,
                       scores |-> sc, answer |-> <<>>]
    /\ documents = <<>>
    /\ xb = <<>>
    /\ is_indexed = FALSE
    /\ ret = NoRet("init")
    /\ indexCalled = FALSE
    /\ instance = 0
    /\ objs = <<>>
    /\ knowledge = [exists |-> FALSE, lines |-> <<>>]
    /\ loads = 0
    /\ pc = <<>>
    /\ got = <<>>

GenerateAnswer ==
    /\ ga.phase = "call"
    /\ ga' = [ga EXCEPT !.phase = "done",
                        !.answer = generate_answer(ga.query, ga.docs, ga.scores)]
    /\ UNCHANGED <<pipelineVars, singletonVars>>

NextAnswer == GenerateAnswer

SpecAnswer == InitAnswer /\ [][NextAnswer]_vars

----------------------------------------------------------------------------
\* The get_pipeline singleton, called from several threads.  An object is
\* recorded by what the claims read of it: its number of stored vectors and
\* its _is_indexed flag.

Callers == 1..NumCallers

InitSingleton ==
    /\ instance = 0
    /\ objs = <<>>
    /\ knowledge \in FilePool
    /\ loads = 0
    /\ pc = [t \in Callers |-> "idle"]
    /\ got = [t \in Callers |-> 0]
    /\ documents = <<>>
    /\ xb = <<>>
    /\ is_indexed = FALSE
    /\ ret = NoRet("init")
    /\ indexCalled = FALSE
    /\ ga = [phase |-> "idle"]

\* a caller enters get_pipeline (again, after an earlier call ended)
Call(t) ==
    /\ pc[t] \in {"idle", "returned", "raised"}
    /\ pc' = [pc EXCEPT ![t] = "L218"]
    /\ got' = [got EXCEPT ![t] = 0]
    /\ UNCHANGED <<instance, objs, knowledge, loads, pipelineVars, answerVars>>

\* line 218: if _pipeline_instance is None
CheckNone(t) ==
    /\ pc[t] = "L218"
    /\ pc' = [pc EXCEPT ![t] = IF instance = 0 THEN "L221" ELSE "L226"]
    /\ UNCHANGED <<instance, objs, knowledge, loads, got, pipelineVars, answerVars>>

\* line 221: _pipeline_instance = RAGPipeline()
Construct(t) ==
    /\ pc[t] = "L221"
    /\ objs' = Append(objs, [ntotal |-> 0, is_indexed |-> FALSE])
    /\ instance' = Len(objs) + 1
    /\ pc' = [pc EXCEPT ![t] = "L224"]
    /\ UNCHANGED <<knowledge, loads, got, pipelineVars, answerVars>>

\* line 224: _pipeline_instance.index_from_file("data/knowledge.txt"), on
\* the object the global names when the line runs
LoadFile(t) ==
    /\ pc[t] = "L224"
    /\ loads' = loads + 1
    /\ LET docs == FileDocuments(knowledge.lines)
       IN  IF ~knowledge.exists \/ Len(docs) = 0
           THEN /\ pc' = [pc EXCEPT ![t] = "raised"]
                /\ objs' = objs
           ELSE /\ pc' = [pc EXCEPT ![t] = "L226"]
                /\ objs' = [objs EXCEPT ![instance] =
                              [ntotal |-> @.ntotal + Len(docs),
                               is_indexed |-> TRUE]]
    /\ UNCHANGED <<instance, knowledge, got, pipelineVars, answerVars>>

\* line 226: return _pipeline_instance
Return(t) ==
    /\ pc[t] = "L226"
    /\ got' = [got EXCEPT ![t] = instance]
    /\ pc' = [pc EXCEPT ![t] = "returned"]
    /\ UNCHANGED <<instance, objs, knowledge, loads, pipelineVars, answerVars>>

NextSingleton ==
    \E t \in Callers :
        Call(t) \/ CheckNone(t) \/ Construct(t) \/ LoadFile(t) \/ Return(t)

SpecSingleton == InitSingleton /\ [][NextSingleton]_vars

----------------------------------------------------------------------------
\* Properties of the FAISSIndex and the RAGPipeline, under Spec.

Range(f) == {f[i] : i \in DOMAIN f}

\* C2: after every call, successful or failing, the index stores as many
\* documents as vectors, and a search never names a position without a
\* document.
C2_DocumentsMatchVectors ==
    /\ Len(documents) = Len(xb)
    /\ ret.error # "IndexError"
    /\ ret.op \in {"search", "retrieve", "query"} =>
          \A i \in 1..Len(ret.idx) : ret.idx[i] \in 1..Len(documents)

C2_Witness ==
    /\ ret.op = "search"
    /\ Len(ret.docs) >= 2
    /\ Len(documents) = MaxDocs

C4_EmptyBatchRejected ==
    [][(ret'.op = "index_documents" /\ ret'.nd = 0) =>
          /\ ret'.error = "EmptyCorpus"
          /\ documents' = documents
          /\ xb' = xb
          /\ is_indexed' = is_indexed]_vars

\* C5: add_documents with a number of documents other than the number of
\* vectors fails with the mismatch error and stores nothing.
C5_MismatchRejected ==
    [][(ret'.op = "add_documents" /\ ret'.nd # ret'.nv) =>
          /\ ret'.error = "Mismatch"
          /\ documents' = documents
          /\ xb' = xb]_vars

C5_Witness ==
    /\ ret.op = "add_documents"
    /\ ret.nd # ret.nv
    /\ ret.error = "Mismatch"
    /\ Len(documents) > 0

\* C6: is_ready is false as long as index_documents was never called, is
\* true once index_documents has succeeded on a non-empty corpus, and once
\* true stays true.
C6_ReadyAfterIndexing ==
    /\ [](~indexCalled => ~is_ready)
    /\ [](is_ready => (is_indexed /\ Len(documents) > 0))
    /\ [][(ret'.op \in {"index_documents", "index_from_file"}
             /\ ret'.error = "none" /\ ret'.nd > 0) => is_ready']_vars
    /\ [][is_ready => is_ready']_vars

C6_Witness ==
    /\ is_ready
    /\ ret.op = "add_documents"
    /\ ret.error = "none"
    /\ ret.n > 0

\* C7: on a pipeline that is not indexed, retrieve returns no documents and
\* no scores, query returns them with the fixed answer, neither raises,
\* neither calls the encoder and neither changes the pipeline.
C7_UnindexedQueryIsEmpty ==
    [][(ret'.op \in {"retrieve", "query"} /\ ~is_indexed) =>
          /\ ret'.error = "none"
          /\ ret'.docs = <<>>
          /\ ret'.scores = <<>>
          /\ ~ret'.encoded
          /\ ret'.op = "query" => ret'.answer = <<"No relevant information found.">>
          /\ documents' = documents
          /\ xb' = xb
          /\ is_indexed' = is_indexed]_vars

C7_Witness ==
    /\ ret.op = "query"
    /\ ~is_indexed
    /\ Len(documents) > 0
    /\ ret.answer = <<"No relevant information found.">>

----------------------------------------------------------------------------
\* Properties of generate_answer, under SpecAnswer.

AnswerGiven == ga.phase = "done" /\ Len(ga.docs) > 0

\* C8: the confidence label of a non-empty ranked result is decided by the
\* top score alone: above 0.7 high, above 0.5 up to 0.7 moderate, up to 0.5
\* low.
C8_ConfidenceSteps ==
    AnswerGiven =>
        LET top == ga.scores[1]
            label == ga.answer[2]
        IN  /\ top > 700 => label = "high confidence"
            /\ (top > 500 /\ top <= 700) => label = "moderate confidence"
            /\ top <= 500 => label = "low confidence"

C8_Witness ==
    /\ AnswerGiven
    /\ ga.scores[1] = 700
    /\ ga.answer[2] = "moderate confidence"
    /\ Len(ga.scores) >= 2
    /\ ga.scores[2] = 500

\* C9: the answer to a non-empty ranked result is the labelled preamble and
\* the whole top document; a related-info section follows exactly when there
\* is a second document, and holds its first min(200, length) characters;
\* nothing else, so no lower-ranked document, appears.
C9_AnswerLayout ==
    AnswerGiven =>
        LET a == ga.answer
            d1 == ga.docs[1]
            more == Len(ga.docs) >= 2
            cut == IF more THEN Min(200, Len(ga.docs[2])) ELSE 0
        IN  /\ a[1] = "Based on retrieved data ("
            /\ a[3] = "):\n"
            /\ \A i \in 1..Len(d1) : a[3 + i] = d1[i]
            /\ more <=> "\n\nRelated info:\n" \in Range(a)
            /\ more => /\ a[4 + Len(d1)] = "\n\nRelated info:\n"
                       /\ \A i \in 1..cut : a[4 + Len(d1) + i] = ga.docs[2][i]
            /\ Len(a) = 3 + Len(d1) + (IF more THEN 1 + cut ELSE 0)

C9_Witness ==
    /\ AnswerGiven
    /\ Len(ga.docs) >= 3
    /\ Len(ga.docs[2]) > 200
    /\ ga.docs[3] = DocA
    /\ "a" \notin Range(ga.answer)

----------------------------------------------------------------------------
\* Properties of get_pipeline, under SpecSingleton.

\* C1 as claimed: however the callers interleave, one RAGPipeline is
\* constructed, one caller performs the initial load, and every caller is
\* returned the same object.
C1_OneInstanceOneLoad ==
    /\ Len(objs) <= 1
    /\ loads <= 1
    /\ \A t, u \in Callers :
          (pc[t] = "returned" /\ pc[u] = "returned") => got[t] = got[u]

\* C10 as claimed: every object get_pipeline returns has completed the
\* initial load.
C10_ReturnedIsLoaded ==
    \A t \in Callers :
        pc[t] = "returned" =>
            /\ got[t] \in 1..Len(objs)
            /\ objs[got[t]].is_indexed
            /\ objs[got[t]].ntotal > 0

====
